---- MODULE Spec2Model ----
(***************************************************************************)
(* Cart-Automation: the session / page / AI-client caches, the observe and *)
(* extract adapters, the keyword action resolver and the Zepto cart         *)
(* workflow, modelled from src/index.ts (instance members) and              *)
(* src/src/index.ts (static members, the workflow `main`).                  *)
(***************************************************************************)
EXTENDS Integers, Sequences, FiniteSets, TLC

VARIABLES
    \* ---- the resolver's inputs and result (getMatchingActions) ----
    rPc, rActions, rKeywords, rResult,
    \* ---- which program runs, and its environment ----
    layout,          \* "instance": src/index.ts, "static": src/src/index.ts
    chromeFound,     \* findChrome() finds an executable
    hasModelName,    \* process.env.STAGEHAND_MODEL_NAME is set
    hasApiKey,       \* process.env.STAGEHAND_MODEL_API_KEY is set
    \* ---- program state ----
    context,         \* BrowserContextManager.context (0: undefined)
    page,            \* Automation.page, per target (0: undefined)
    stagehand,       \* Automation.stagehand, per target (0: undefined)
    \* ---- the browser driver and the AI backend ----
    launchAttempts,  \* calls of chromium.launchPersistentContext
    contexts,        \* the contexts launched, in order: [closed]
    pages,           \* the pages opened, in order: [ctx, owner]
    gotos,           \* the page.goto calls, in order: [page, url, ok]
    clients,         \* the Stagehand objects built: [owner, cdp, initCalls, inited, closed]
    backendCall,     \* the last call delegated to stagehand.observe / extract
    \* ---- the serialised callers (history of what the calls returned) ----
    budget,          \* the calls the caller makes in this run
    calls, used, lastErr, pageRet, shRet, ctxRet,
    \* ---- callers that do not wait for one another ----
    tasks,           \* per caller: the call it is in and the await it is at
    \* ---- the workflow `main` of src/src/index.ts ----
    pc,              \* the statement `main` is at
    loopI,           \* `i` of the empty-cart loop
    loopObserves,    \* stagehand.observe calls made by the loop
    removeClicks,    \* locator.click() calls made by the loop
    curActions,      \* the list the last stagehand.observe returned
    lastClick,       \* the candidate the last selector click went to
    loopVisible,     \* what locator.isVisible() answered in the last pass of the loop
    items,           \* extractActions
    randomIndex,     \* randomIndex
    addClicks,       \* clicks on an "add" button
    cartClicks,      \* clicks on the cart indicator
    steps,           \* the workflow steps completed, in order
    abortedBy,       \* the error that rejected main's promise ("" if none)
    exitRan,         \* the process "exit" listener has run
    launchAtAbort, clientsAtAbort   \* launch attempts / clients built when main aborted

vars == << rPc, rActions, rKeywords, rResult,
           layout, chromeFound, hasModelName, hasApiKey,
           context, page, stagehand,
           launchAttempts, contexts, pages, gotos, clients, backendCall,
           budget, calls, used, lastErr, pageRet, shRet, ctxRet, tasks,
           pc, loopI, loopObserves, removeClicks, curActions, lastClick, items,
           randomIndex, addClicks, cartClicks, steps,
           abortedBy, exitRan, launchAtAbort, clientsAtAbort, loopVisible >>

resolverVars == << rPc, rActions, rKeywords, rResult >>
envVars      == << layout, chromeFound, hasModelName, hasApiKey >>
worldVars    == << context, page, stagehand, launchAttempts, contexts, pages,
                   gotos, clients >>
callerVars   == << budget, calls, used, lastErr, pageRet, shRet, ctxRet, tasks >>
mainVars     == << pc, loopI, loopObserves, removeClicks, curActions, lastClick,
                   items, randomIndex, addClicks, cartClicks, steps,
                   abortedBy, exitRan, launchAtAbort, clientsAtAbort,
                   loopVisible >>

----------------------------------------------------------------------------
(* Bounds of the model.                                                     *)

MaxActions == 2     \* candidates in one observed list (resolver inputs)
MaxCombos  == 2     \* keyword combinations in one set K
MaxCalls   == 4     \* serialised calls on the caches in one run of the caller
MaxAdapterCalls == 2  \* serialised calls through the adapters in one run
MaxObserved == 2    \* candidates in one list the AI backend returns to main
MaxItems    == 2    \* items one extraction returns
MaxTaskCalls == 2   \* calls one of the interleaved callers makes

----------------------------------------------------------------------------
(* Strings are sequences of characters; String.prototype.toLowerCase and    *)
(* String.prototype.includes are computed character by character.           *)

toLowerCaseChar(c) ==
    CASE c = "A" -> "a"
      [] c = "B" -> "b"
      [] c = "C" -> "c"
      [] c = "R" -> "r"
      [] c = "S" -> "s"
      [] OTHER   -> c

toLowerCase(str) == [k \in 1..Len(str) |-> toLowerCaseChar(str[k])]

\* str.includes(sub): sub occurs in str at some offset (the empty string always)
includes(str, sub) ==
    \E off \in 0..(Len(str) - Len(sub)) :
        \A k \in 1..Len(sub) : str[off + k] = sub[k]

\* some, comparing the keywords as written (no keyword.toLowerCase())
someCaseSensitive(combos, k, desc) ==
    \E c \in k..Len(combos) :
        \A j \in 1..Len(combos[c]) : includes(toLowerCase(desc), combos[c][j])

RECURSIVE some(_, _, _)
\* keywords.some(test): scans the combinations from the first, stops at a hit
some(combos, k, desc) ==
    IF k > Len(combos) THEN FALSE
    ELSE IF \A j \in 1..Len(combos[k]) :
                includes(toLowerCase(desc), toLowerCase(combos[k][j]))
         THEN TRUE
         ELSE some(combos, k + 1, desc)

RECURSIVE filter(_, _, _)
\* actions.filter(test): keeps the accepted elements, in order
filter(actions, k, keywords) ==
    IF k > Len(actions) THEN << >>
    ELSE IF some(keywords, 1, actions[k].description)
         THEN << actions[k] >> \o filter(actions, k + 1, keywords)
         ELSE filter(actions, k + 1, keywords)

getMatchingActions(actions, keywords) == filter(actions, 1, keywords)

\* The descriptions and keywords the resolver is exercised on.
Descriptions ==
    { << >>, <<"a">>, <<"A", "b">>, <<"b", "a">>, <<"a", "c", "b">>, <<"B">> }

Keywords == { << >>, <<"a">>, <<"A">>, <<"a", "b">>, <<"b">> }

Combinations ==
    { << >> } \cup { <<k>> : k \in Keywords }
              \cup { <<<<"a">>, <<"b">>>>, <<<<"A">>, <<"b">>>>, <<<<"b">>, <<"c">>>> }

SeqsUpTo(S, n) == UNION { [1..m -> S] : m \in 0..n }

\* An observed list: every candidate has its own selector.
ActionLists ==
    { [k \in 1..Len(ds) |-> [description |-> ds[k], selector |-> ToString(k)]] :
        ds \in SeqsUpTo(Descriptions, MaxActions) }

KeywordSets == SeqsUpTo(Combinations, MaxCombos)

----------------------------------------------------------------------------
(* The resolver, applied to bounded inputs.                                 *)

Resolve ==
    /\ rPc = "input"
    /\ UNCHANGED << envVars, worldVars, backendCall, callerVars, mainVars >>
    /\ rResult' = getMatchingActions(rActions, rKeywords)
    /\ rPc' = "done"
    /\ UNCHANGED << rActions, rKeywords >>
----------------------------------------------------------------------------
(* The browser driver, the AI backend and the caches, as one record `w` so  *)
(* that a method and the methods it awaits compose into one call.  A call   *)
(* yields a set of outcomes [w, ret, err]: the world after it, what it      *)
(* returned, and the error it threw ("" when it returned).                  *)

None == 0

Targets == { "Automation", "Zepto", "Blinkit" }

HOME_URL(t) ==
    CASE t = "Automation" -> "https://google.com"
      [] t = "Zepto"      -> "https://zepto.com"
      [] t = "Blinkit"    -> "https://blinkit.com"

World ==
    [ context |-> context, page |-> page, stagehand |-> stagehand,
      launchAttempts |-> launchAttempts, contexts |-> contexts,
      pages |-> pages, gotos |-> gotos, clients |-> clients ]

Install(w) ==
    /\ context' = w.context
    /\ page' = w.page
    /\ stagehand' = w.stagehand
    /\ launchAttempts' = w.launchAttempts
    /\ contexts' = w.contexts
    /\ pages' = w.pages
    /\ gotos' = w.gotos
    /\ clients' = w.clients

Ok(w, ret)    == [w |-> w, ret |-> ret, err |-> ""]
Throw(w, err) == [w |-> w, ret |-> None, err |-> err]

\* chromium.launchPersistentContext: the launch is attempted; it fails, or a
\* new context exists
launchPersistentContext(w) ==
    LET w1 == [w EXCEPT !.launchAttempts = @ + 1]
        id == Len(w.contexts) + 1
    IN  { Throw(w1, "launch failed"),
          Ok([w1 EXCEPT !.contexts = Append(@, [closed |-> FALSE])], id) }

\* getContext without the `if (this.context)` test
getContext_NoCache(w) ==
    IF ~chromeFound THEN { Throw(w, "Chrome executable not found") }
    ELSE { IF o.err # "" THEN o ELSE Ok([o.w EXCEPT !.context = o.ret], o.ret) :
             o \in launchPersistentContext(w) }

\* BrowserContextManager.getContext
getContext(w) ==
    IF w.context # None THEN { Ok(w, w.context) }
    ELSE IF ~chromeFound THEN { Throw(w, "Chrome executable not found") }
    ELSE { IF o.err # "" THEN o ELSE Ok([o.w EXCEPT !.context = o.ret], o.ret) :
             o \in launchPersistentContext(w) }

\* a context is alive from its launch to its close()
AliveContexts(w) == { c \in 1..Len(w.contexts) : ~w.contexts[c].closed }

\* BrowserContextManager.getCdpUrl: the fetch of localhost:9222 answers only
\* while a launched browser runs, and may fail then too
getCdpUrl(w) ==
    { Throw(w, "debugging endpoint unreachable") }
        \cup { Ok(w, c) : c \in AliveContexts(w) }

\* `this.page` / `this.stagehand`: an own field of the instance (src/index.ts),
\* or a static member looked up along the class chain (src/src/index.ts),
\* where a subclass without its own value reads the one of Automation
readSlot(slot, t) ==
    IF layout = "static" /\ slot[t] = None THEN slot["Automation"] ELSE slot[t]

\* context.newPage() and page.goto(HOME_URL) of getPage
newPage(w, ctx, t) ==
    IF w.contexts[ctx].closed
    THEN { Throw(w, "context closed") }
    ELSE { Ok([w EXCEPT !.pages = Append(@, [ctx |-> ctx, owner |-> t])],
              Len(w.pages) + 1) }

goto(w, p, url) ==
    { Throw([w EXCEPT !.gotos = Append(@, [page |-> p, url |-> url, ok |-> FALSE])],
            "navigation failed"),
      Ok([w EXCEPT !.gotos = Append(@, [page |-> p, url |-> url, ok |-> TRUE])], p) }

\* o, or what `next` makes of it when o returned
Then(o, next(_)) == IF o.err # "" THEN { o } ELSE next(o)

\* getPage without its cache: neither the `if (this.page)` test nor the store
getPage_NoCache(w, t) ==
    UNION { Then(c, LAMBDA oc :
        UNION { Then(n, LAMBDA on :
            { IF g.err # "" THEN g ELSE Ok(g.w, on.ret) : g \in goto(on.w, on.ret, HOME_URL(t)) })
          : n \in newPage(oc.w, oc.ret, t) })
      : c \in getContext(w) }

\* Automation.getPage
getPage(w, t) ==
    IF readSlot(w.page, t) # None THEN { Ok(w, readSlot(w.page, t)) }
    ELSE UNION { Then(c, LAMBDA oc :
        UNION { Then(n, LAMBDA on :
            { IF g.err # "" THEN g
              ELSE Ok([g.w EXCEPT !.page[t] = on.ret], on.ret) :
                g \in goto(on.w, on.ret, HOME_URL(t)) })
          : n \in newPage(oc.w, oc.ret, t) })
      : c \in getContext(w) }

\* new Stagehand({...}): the code passes the two environment values on with
\* `!` and does not test them; whether the library's constructor rejects a
\* missing value is the library's choice
newStagehand(w, t, cdp) ==
    LET id == Len(w.clients) + 1
        built == Ok([w EXCEPT !.clients = Append(@,
                        [owner |-> t, cdp |-> cdp, initCalls |-> 0,
                         inited |-> FALSE, closed |-> FALSE])], id)
    IN  IF hasModelName /\ hasApiKey
        THEN { built }
        ELSE { built, Throw(w, "model configuration rejected") }

\* stagehand.init()
init(w, id) ==
    { Throw([w EXCEPT !.clients[id].initCalls = @ + 1], "init failed"),
      Ok([w EXCEPT !.clients[id].initCalls = @ + 1, !.clients[id].inited = TRUE], id) }

\* getStageHand without the `if (this.stagehand)` test
getStageHand_NoCache(w, t) ==
    UNION { Then(p, LAMBDA op :
        UNION { Then(u, LAMBDA ou :
            UNION { Then(k, LAMBDA ok :
                { IF i.err # "" THEN i ELSE Ok(i.w, ok.ret) :
                    i \in init([ok.w EXCEPT !.stagehand[t] = ok.ret], ok.ret) })
              : k \in newStagehand(ou.w, t, ou.ret) })
          : u \in getCdpUrl(op.w) })
      : p \in getPage(w, t) }

\* Automation.getStageHand: the slot is assigned before init() is awaited
getStageHand(w, t) ==
    IF readSlot(w.stagehand, t) # None THEN { Ok(w, readSlot(w.stagehand, t)) }
    ELSE UNION { Then(p, LAMBDA op :
        UNION { Then(u, LAMBDA ou :
            UNION { Then(k, LAMBDA ok :
                { IF i.err # "" THEN i ELSE Ok(i.w, ok.ret) :
                    i \in init([ok.w EXCEPT !.stagehand[t] = ok.ret], ok.ret) })
              : k \in newStagehand(ou.w, t, ou.ret) })
          : u \in getCdpUrl(op.w) })
      : p \in getPage(w, t) }

\* closeContext of src/src/index.ts: getContext(), then context.close()
closeContext(w) ==
    { IF o.err # "" THEN o
      ELSE Ok([o.w EXCEPT !.contexts[o.ret].closed = TRUE], o.ret) :
        o \in getContext(w) }

----------------------------------------------------------------------------
(* JavaScript values handed to observe / extract: undefined, a string, a    *)
(* plain options object (a function from its own keys) or a zod schema.     *)

EmptyObj == [k \in {} |-> None]

Undefined  == [type |-> "undefined", str |-> "", obj |-> EmptyObj]
StrV(x)    == [type |-> "string", str |-> x, obj |-> EmptyObj]
ObjV(o)    == [type |-> "object", str |-> "", obj |-> o]
SchemaV(n) == [type |-> "schema", str |-> n, obj |-> EmptyObj]

\* a page object of the caller's own, not the cached one
ForeignPage == 99

\* options.page = p
setPage(o, p) == [k \in DOMAIN o \cup {"page"} |-> IF k = "page" THEN p ELSE o[k]]

\* { ...a, ...b }
spread(a, b) == [k \in DOMAIN a \cup DOMAIN b |-> IF k \in DOMAIN b THEN b[k] ELSE a[k]]

\* Object.assign({}, x) for x an options object or undefined
assignCopy(x) == IF x.type = "object" THEN ObjV(x.obj) ELSE ObjV(EmptyObj)

\* x || {}
orEmpty(x) == IF x.type = "object" THEN x.obj ELSE EmptyObj

\* the normalisation of observe, with the page left as the caller gave it in
\* the options-only shape
observeArgs_KeepCallerPage(paramOne, paramTwo, thisPage) ==
    IF paramOne.type = "undefined"
    THEN [a1 |-> ObjV(setPage(orEmpty(paramTwo), thisPage)), a2 |-> assignCopy(paramTwo)]
    ELSE IF paramOne.type = "string"
    THEN [a1 |-> paramOne, a2 |-> ObjV(setPage(orEmpty(paramTwo), thisPage))]
    ELSE [a1 |-> ObjV(spread([page |-> thisPage], paramOne.obj)), a2 |-> assignCopy(paramTwo)]

\* Automation.observe, lines 100-117: the two arguments handed to
\* stagehand.observe
observeArgs(paramOne, paramTwo, thisPage) ==
    IF paramOne.type = "undefined"
    THEN [a1 |-> ObjV(setPage(orEmpty(paramTwo), thisPage)), a2 |-> assignCopy(paramTwo)]
    ELSE IF paramOne.type = "string"
    THEN [a1 |-> paramOne, a2 |-> ObjV(setPage(orEmpty(paramTwo), thisPage))]
    ELSE [a1 |-> ObjV(setPage(paramOne.obj, thisPage)), a2 |-> assignCopy(paramTwo)]

DefaultInstruction == "Extract the text content of the page"
pageTextSchema == "pageTextSchema"

truthy(x) == x.type # "undefined" /\ ~(x.type = "string" /\ x.str = "")

\* extractArgs without the `instanceof z.ZodType` tests: whatever comes second
\* is taken for the schema
extractArgs_SecondIsSchema(paramOne, paramTwo, paramThree, thisPage) ==
    LET base == [page |-> thisPage]
        three == IF truthy(paramThree) THEN spread(base, paramThree.obj) ELSE base
        finalInstruction ==
            IF paramOne.type = "string" THEN paramOne ELSE Undefined
        finalSchema ==
            IF paramOne.type = "string" /\ truthy(paramTwo) THEN paramTwo ELSE Undefined
        finalOptions ==
            IF paramOne.type = "undefined" THEN base
            ELSE IF paramOne.type = "string" THEN three
            ELSE spread(base, paramOne.obj)
    IN  [ a1 |-> IF truthy(finalInstruction) THEN finalInstruction
                 ELSE StrV(DefaultInstruction),
          a2 |-> IF truthy(finalSchema) THEN finalSchema ELSE SchemaV(pageTextSchema),
          a3 |-> ObjV(finalOptions) ]

\* Automation.extract, lines 141-164: the three arguments handed to
\* stagehand.extract
extractArgs(paramOne, paramTwo, paramThree, thisPage) ==
    LET base == [page |-> thisPage]
        two  == IF truthy(paramTwo) /\ paramTwo.type # "schema"
                THEN spread(base, paramTwo.obj) ELSE base
        three == IF truthy(paramThree) THEN spread(two, paramThree.obj) ELSE two
        finalInstruction ==
            IF paramOne.type = "string" THEN paramOne ELSE Undefined
        finalSchema ==
            IF paramOne.type = "string" /\ truthy(paramTwo) /\ paramTwo.type = "schema"
            THEN paramTwo ELSE Undefined
        finalOptions ==
            IF paramOne.type = "undefined" THEN base
            ELSE IF paramOne.type = "string" THEN three
            ELSE spread(base, paramOne.obj)
    IN  [ a1 |-> IF truthy(finalInstruction) THEN finalInstruction
                 ELSE StrV(DefaultInstruction),
          a2 |-> IF truthy(finalSchema) THEN finalSchema ELSE SchemaV(pageTextSchema),
          a3 |-> ObjV(finalOptions) ]

\* a delegated call: the client called, the arguments a1..a3 it was given,
\* and the arguments p1..p3 the adapter had been called with
NoCall == [op |-> "none", client |-> None, a1 |-> Undefined, a2 |-> Undefined,
           a3 |-> Undefined, p1 |-> Undefined, p2 |-> Undefined, p3 |-> Undefined]

\* Automation.observe: getStageHand(), then the delegated call
observe(w, t, paramOne, paramTwo) ==
    { IF o.err # "" THEN [w |-> o.w, ret |-> None, err |-> o.err, call |-> NoCall]
      ELSE LET a == observeArgs(paramOne, paramTwo, o.w.page[t])
           IN  [w |-> o.w, ret |-> o.ret, err |-> "",
                call |-> [op |-> "observe", client |-> o.ret, a1 |-> a.a1,
                          a2 |-> a.a2, a3 |-> Undefined,
                          p1 |-> paramOne, p2 |-> paramTwo, p3 |-> Undefined]] :
        o \in getStageHand(w, t) }

\* Automation.extract: getStageHand(), then the delegated call
extract(w, t, paramOne, paramTwo, paramThree) ==
    { IF o.err # "" THEN [w |-> o.w, ret |-> None, err |-> o.err, call |-> NoCall]
      ELSE LET a == extractArgs(paramOne, paramTwo, paramThree, o.w.page[t])
           IN  [w |-> o.w, ret |-> o.ret, err |-> "",
                call |-> [op |-> "extract", client |-> o.ret, a1 |-> a.a1,
                          a2 |-> a.a2, a3 |-> a.a3,
                          p1 |-> paramOne, p2 |-> paramTwo, p3 |-> paramThree]] :
        o \in getStageHand(w, t) }

\* The arguments the callers pass, in the call shapes the overloads declare.
OptionObjects ==
    { EmptyObj,
      [selector |-> "xpath=/html/body"],
      [page |-> ForeignPage, selector |-> "xpath=/html/body"] }

Instructions == { "", "find the search bar" }

Schemas == { "itemsSchema" }

ObserveShapes ==
    { << Undefined, Undefined >> }
      \cup { << ObjV(o), Undefined >> : o \in OptionObjects }
      \cup { << StrV(i), Undefined >> : i \in Instructions }
      \cup { << StrV(i), ObjV(o) >> : i \in Instructions, o \in OptionObjects }

ExtractShapes ==
    { << Undefined, Undefined, Undefined >> }
      \cup { << ObjV(o), Undefined, Undefined >> : o \in OptionObjects }
      \cup { << StrV(i), Undefined, Undefined >> : i \in Instructions }
      \cup { << StrV(i), ObjV(o), Undefined >> : i \in Instructions, o \in OptionObjects }
      \cup { << StrV(i), SchemaV(z), Undefined >> : i \in Instructions, z \in Schemas }
      \cup { << StrV(i), SchemaV(z), ObjV(o) >> :
                i \in Instructions, z \in Schemas, o \in OptionObjects }
----------------------------------------------------------------------------
(* Initial values.                                                          *)

ResolverOff ==
    /\ rPc = "off"
    /\ rActions = << >>
    /\ rKeywords = << >>
    /\ rResult = << >>

WorldInit ==
    /\ context = None
    /\ page = [t \in Targets |-> None]
    /\ stagehand = [t \in Targets |-> None]
    /\ launchAttempts = 0
    /\ contexts = << >>
    /\ pages = << >>
    /\ gotos = << >>
    /\ clients = << >>
    /\ backendCall = NoCall

\* a caller that has not called yet
IdleTask ==
    [ op |-> "none", pc |-> "idle", ctx |-> None, pg |-> None, client |-> None,
      ret |-> None, retInited |-> FALSE, err |-> "", n |-> 0 ]

Tasks == { "first", "second" }

CallerInit ==
    /\ calls = 0
    /\ used = {}
    /\ lastErr = ""
    /\ pageRet = [t \in Targets |-> {}]
    /\ shRet = [t \in Targets |-> {}]
    /\ ctxRet = {}
    /\ tasks = [k \in Tasks |-> IdleTask]

NoAction == [description |-> << >>, selector |-> ""]

MainIdle(at) ==
    /\ pc = at
    /\ loopI = 0
    /\ loopObserves = 0
    /\ removeClicks = 0
    /\ curActions = << >>
    /\ lastClick = NoAction
    /\ loopVisible = "unasked"
    /\ items = << >>
    /\ randomIndex = 0
    /\ addClicks = 0
    /\ cartClicks = 0
    /\ steps = << >>
    /\ abortedBy = ""
    /\ exitRan = FALSE
    /\ launchAtAbort = 0
    /\ clientsAtAbort = 0

MainOff == MainIdle("off")

EnvAny ==
    /\ chromeFound \in BOOLEAN
    /\ hasModelName \in BOOLEAN
    /\ hasApiKey \in BOOLEAN

----------------------------------------------------------------------------
(* The resolver on its own.                                                 *)

InitResolve ==
    /\ rPc = "input"
    /\ rActions \in ActionLists
    /\ rKeywords \in KeywordSets
    /\ rResult = << >>
    /\ layout = "instance"
    /\ chromeFound = TRUE /\ hasModelName = TRUE /\ hasApiKey = TRUE
    /\ WorldInit /\ CallerInit /\ MainOff
    /\ budget = 0

NextResolve == Resolve

SpecResolve == InitResolve /\ [][NextResolve]_vars

----------------------------------------------------------------------------
(* A caller that uses the caches and the adapters of one program through    *)
(* serialised calls: each call runs to its return or its throw before the   *)
(* next one starts.                                                         *)

ApiFrame == UNCHANGED << envVars, resolverVars, mainVars, budget, tasks >>

Called(t, err) ==
    /\ calls' = calls + 1
    /\ used' = IF t \in Targets THEN used \cup {t} ELSE used
    /\ lastErr' = err

CallGetContext ==
    /\ calls < budget
    /\ ApiFrame
    /\ \E o \in getContext(World) :
        /\ Install(o.w)
        /\ Called("none", o.err)
        /\ ctxRet' = IF o.err = "" THEN ctxRet \cup {o.ret} ELSE ctxRet
    /\ UNCHANGED << pageRet, shRet, backendCall >>

CallCloseContext ==
    /\ calls < budget
    /\ ApiFrame
    /\ \E o \in closeContext(World) :
        /\ Install(o.w)
        /\ Called("none", o.err)
        /\ ctxRet' = IF o.err = "" THEN ctxRet \cup {o.ret} ELSE ctxRet
    /\ UNCHANGED << pageRet, shRet, backendCall >>

CallGetPage(t) ==
    /\ calls < budget
    /\ ApiFrame
    /\ \E o \in getPage(World, t) :
        /\ Install(o.w)
        /\ Called(t, o.err)
        /\ pageRet' = IF o.err = "" THEN [pageRet EXCEPT ![t] = @ \cup {o.ret}]
                      ELSE pageRet
    /\ UNCHANGED << shRet, ctxRet, backendCall >>

CallGetStageHand(t) ==
    /\ calls < budget
    /\ ApiFrame
    /\ \E o \in getStageHand(World, t) :
        /\ Install(o.w)
        /\ Called(t, o.err)
        /\ shRet' = IF o.err = "" THEN [shRet EXCEPT ![t] = @ \cup {o.ret}]
                    ELSE shRet
    /\ UNCHANGED << pageRet, ctxRet, backendCall >>

CallObserve(t) ==
    /\ calls < budget
    /\ ApiFrame
    /\ layout = "instance"
    /\ \E a \in ObserveShapes : \E o \in observe(World, t, a[1], a[2]) :
        /\ Install(o.w)
        /\ Called(t, o.err)
        /\ shRet' = IF o.err = "" THEN [shRet EXCEPT ![t] = @ \cup {o.ret}]
                    ELSE shRet
        /\ backendCall' = IF o.err = "" THEN o.call ELSE backendCall
    /\ UNCHANGED << pageRet, ctxRet >>

CallExtract(t) ==
    /\ calls < budget
    /\ ApiFrame
    /\ layout = "instance"
    /\ \E a \in ExtractShapes : \E o \in extract(World, t, a[1], a[2], a[3]) :
        /\ Install(o.w)
        /\ Called(t, o.err)
        /\ shRet' = IF o.err = "" THEN [shRet EXCEPT ![t] = @ \cup {o.ret}]
                    ELSE shRet
        /\ backendCall' = IF o.err = "" THEN o.call ELSE backendCall
    /\ UNCHANGED << pageRet, ctxRet >>

ApiStart ==
    /\ layout \in { "instance", "static" }
    /\ EnvAny
    /\ WorldInit /\ CallerInit /\ ResolverOff /\ MainOff

\* the caches: getContext, closeContext, getPage, getStageHand
InitCache ==
    /\ ApiStart
    /\ budget = MaxCalls

NextCache ==
    \/ CallGetContext
    \/ CallCloseContext
    \/ \E t \in Targets : CallGetPage(t)
    \/ \E t \in Targets : CallGetStageHand(t)

SpecCache == InitCache /\ [][NextCache]_vars

\* the AI client, used directly and through observe / extract
InitAdapter ==
    /\ ApiStart
    /\ budget = MaxAdapterCalls

NextAdapter ==
    \/ \E t \in Targets : CallGetStageHand(t)
    \/ \E t \in Targets : CallObserve(t)
    \/ \E t \in Targets : CallExtract(t)

SpecAdapter == InitAdapter /\ [][NextAdapter]_vars

----------------------------------------------------------------------------
(* Properties of the resolver.                                              *)

\* res is src restricted to the positions in idx, in the order of src
IsSelection(res, src, idx) ==
    \E f \in [1..Len(res) -> 1..Len(src)] :
        /\ \A a, b \in 1..Len(res) : a < b => f[a] < f[b]
        /\ { f[a] : a \in 1..Len(res) } = idx
        /\ \A a \in 1..Len(res) : res[a] = src[f[a]]

\* the lower-cased description contains every keyword, as written, of some
\* combination
MatchesAsWritten(a, K) ==
    \E c \in 1..Len(K) : \A j \in 1..Len(K[c]) :
        includes(toLowerCase(a.description), K[c][j])

\* the lower-cased description contains the lower-cased form of every keyword
\* of some combination
MatchesFolded(a, K) ==
    \E c \in 1..Len(K) : \A j \in 1..Len(K[c]) :
        includes(toLowerCase(a.description), toLowerCase(K[c][j]))

\* C1 as stated: getMatchingActions(C, K) is exactly the candidates whose
\* lower-cased description contains every keyword (as written in K) of at
\* least one combination, in their original order, and is empty when none does.
C1_AsStated ==
    rPc = "done" =>
        IsSelection(rResult, rActions,
            { k \in 1..Len(rActions) : MatchesAsWritten(rActions[k], rKeywords) })

\* C1, amended: getMatchingActions(C, K) is exactly the candidates whose
\* lower-cased description contains the lower-cased form of every keyword of
\* at least one combination in K (the match ignores the case of the keywords
\* too), in their original relative order; it is the empty list when no
\* candidate matches.
C1_CaseInsensitiveSelection ==
    rPc = "done" =>
        /\ IsSelection(rResult, rActions,
              { k \in 1..Len(rActions) : MatchesFolded(rActions[k], rKeywords) })
        /\ (\A k \in 1..Len(rActions) : ~MatchesFolded(rActions[k], rKeywords))
              => rResult = << >>

\* a resolved list that keeps one candidate and drops another, under a
\* combination with an upper-case keyword
C1_Witness ==
    /\ rPc = "done"
    /\ Len(rActions) = 2
    /\ Len(rResult) = 1
    /\ rResult[1] = rActions[2]
    /\ \E c \in 1..Len(rKeywords) : \E j \in 1..Len(rKeywords[c]) :
          rKeywords[c][j] # toLowerCase(rKeywords[c][j])
----------------------------------------------------------------------------
(* Properties of the caches.                                                *)

\* the calls so far were made on target t alone; instances (src/index.ts)
\* have their own fields, so there every target is on its own
Isolated(t) == layout = "instance" \/ used \subseteq {t}

PagesOpenedFor(t) == { k \in 1..Len(pages) : pages[k].owner = t }

\* the page.goto(HOME_URL) calls made for target t
HomeGotos(t) ==
    { k \in 1..Len(gotos) :
        gotos[k].url = HOME_URL(t) /\ pages[gotos[k].page].owner = t }

FailedHomeGotos(t) == { k \in HomeGotos(t) : ~gotos[k].ok }

\* C2 as stated: for one target, the getPage() calls of a serialised sequence
\* all return the identical page, and across the sequence exactly one page is
\* opened and exactly one navigation to the home URL is performed.
C2_AsStated ==
    \A t \in Targets :
        (Isolated(t) /\ pageRet[t] # {}) =>
            /\ Cardinality(pageRet[t]) = 1
            /\ Cardinality(PagesOpenedFor(t)) = 1
            /\ Cardinality(HomeGotos(t)) = 1

\* C2, amended: for one target, every getPage() call of a serialised sequence
\* that returns, returns the identical page, the one page whose navigation to
\* the target's home URL succeeded; the pages opened across the sequence are
\* that page and one more for every call whose home navigation failed (such a
\* call caches nothing, and the next call opens a new page and navigates
\* again), so one page and one navigation only when no navigation fails.
C2_OnePageOnceNavigated ==
    \A t \in Targets :
        (Isolated(t) /\ pageRet[t] # {}) =>
            /\ pageRet[t] = { page[t] }
            /\ { gotos[k].page : k \in HomeGotos(t) \ FailedHomeGotos(t) } = { page[t] }
            /\ Cardinality(HomeGotos(t) \ FailedHomeGotos(t)) = 1
            /\ Cardinality(PagesOpenedFor(t)) = 1 + Cardinality(FailedHomeGotos(t))
            /\ Cardinality(HomeGotos(t)) = Cardinality(PagesOpenedFor(t))

\* getPage() returned for a target after an earlier call's navigation failed,
\* and at least three calls were made
C2_Witness ==
    \E t \in Targets :
        /\ used = {t}
        /\ pageRet[t] # {}
        /\ FailedHomeGotos(t) # {}
        /\ calls >= 3

\* C8: over the getContext() calls and the context closes of one process the
\* browser is launched at most once: once a context is cached, no call
\* launches again or replaces it, also after it was closed; every call that
\* returns, returns that context; at most one context is ever alive.
C8_LaunchedAtMostOnce ==
    [][ /\ Len(contexts') <= 1
        /\ Cardinality(ctxRet') <= 1
        /\ Cardinality(AliveContexts(World)') <= 1
        /\ context' # None => ctxRet' \subseteq { context' }
        /\ context # None =>
              /\ context' = context
              /\ launchAttempts' = launchAttempts
              /\ Len(contexts') = Len(contexts) ]_vars

\* the cached context was closed and a later getPage() got it back from
\* getContext() (newPage then failed on it), with one launch in all
C8_Witness ==
    /\ lastErr = "context closed"
    /\ context # None
    /\ contexts[context].closed
    /\ ctxRet = { context }
    /\ launchAttempts = 1
----------------------------------------------------------------------------
(* Properties of the AI client and of the adapters.                         *)

ClientsBuiltFor(t) == { k \in 1..Len(clients) : clients[k].owner = t }

\* C3: for one target, the getStageHand() calls of a serialised sequence,
\* made directly or through observe / extract, all return the identical
\* client; the client is constructed once and its init() is run exactly once.
C3_OneClientInitOnce ==
    \A t \in Targets :
        Isolated(t) =>
            /\ Cardinality(ClientsBuiltFor(t)) <= 1
            /\ \A k \in ClientsBuiltFor(t) : clients[k].initCalls <= 1
            /\ shRet[t] # {} =>
                  /\ shRet[t] = { stagehand[t] }
                  /\ ClientsBuiltFor(t) = { stagehand[t] }
                  /\ clients[stagehand[t]].initCalls = 1

\* two calls on one target returned the client, the last of them through
\* observe or extract
C3_Witness ==
    \E t \in Targets :
        /\ shRet[t] # {}
        /\ used = {t}
        /\ calls >= 2
        /\ lastErr = ""
        /\ backendCall.op # "none"

\* the options the AI backend reads from a delegated observe call: its
\* second argument when the first is the instruction, else its first
ObserveOptionsOf(c) == IF c.a1.type = "string" THEN c.a2 ELSE c.a1

CachedPageOf(c) == page[clients[c.client].owner]

\* C5: in each call shape of observe, the call delegated to the AI backend
\* carries an options object whose page is the instance's cached page, also
\* when the caller's options named another page, and the instruction, when
\* one is given, is passed through unchanged.
C5_ObserveInjectsPage ==
    backendCall.op = "observe" =>
        /\ ObserveOptionsOf(backendCall).type = "object"
        /\ "page" \in DOMAIN ObserveOptionsOf(backendCall).obj
        /\ ObserveOptionsOf(backendCall).obj["page"] = CachedPageOf(backendCall)
        /\ CachedPageOf(backendCall) # None
        /\ backendCall.p1.type = "string" => backendCall.a1 = backendCall.p1
        /\ backendCall.p1.type # "string" => backendCall.a1.type = "object"

CallerNamedPage(v) == v.type = "object" /\ "page" \in DOMAIN v.obj

\* observe was delegated for a caller whose options named a page of its own
C5_Witness ==
    /\ backendCall.op = "observe"
    /\ CallerNamedPage(backendCall.p1) \/ CallerNamedPage(backendCall.p2)

\* C6: in each call shape of extract and for every options object of the
\* caller, one with a page field included, the options passed to the AI
\* backend have their page equal to the instance's cached page.
C6_ExtractPageIsCached ==
    backendCall.op = "extract" =>
        /\ "page" \in DOMAIN backendCall.a3.obj
        /\ backendCall.a3.obj["page"] = CachedPageOf(backendCall)

\* what the caller supplied to extract
SuppliedInstruction(c) == c.p1.type = "string"
SuppliedSchema(c) == c.p2.type = "schema"
SuppliedOptions(c) ==
    IF c.p1.type = "object" THEN c.p1.obj
    ELSE IF c.p2.type = "object" THEN c.p2.obj
    ELSE IF c.p3.type = "object" THEN c.p3.obj
    ELSE EmptyObj

\* the part of C7 on the schema and the options: the default schema exactly
\* when none was supplied, a supplied schema unchanged, and the options made
\* of the caller's options object alone (beside the page)
SchemaAndOptionsKeptApart(c) ==
    /\ c.a2 = SchemaV(pageTextSchema) <=> ~SuppliedSchema(c)
    /\ SuppliedSchema(c) => c.a2 = c.p2
    /\ c.a3.type = "object"
    /\ DOMAIN c.a3.obj = DOMAIN SuppliedOptions(c) \cup {"page"}
    /\ \A k \in DOMAIN SuppliedOptions(c) : c.a3.obj[k] = SuppliedOptions(c)[k]

\* C7 as stated: the default instruction exactly when no instruction was
\* supplied, the default schema exactly when no schema was supplied, a
\* supplied non-empty instruction and a supplied schema unchanged, options
\* and schema never taken for one another.
C7_AsStated ==
    backendCall.op = "extract" =>
        /\ backendCall.a1 = StrV(DefaultInstruction) <=> ~SuppliedInstruction(backendCall)
        /\ (SuppliedInstruction(backendCall) /\ backendCall.p1.str # "")
              => backendCall.a1 = backendCall.p1
        /\ SchemaAndOptionsKeptApart(backendCall)

\* C7, amended: extract delegates with the default instruction exactly when
\* no instruction or the empty string was supplied, and with the default
\* text-content schema exactly when no schema was supplied; a supplied
\* non-empty instruction and a supplied schema are passed through unchanged,
\* and options and schema are never taken for one another.
C7_DefaultsWhenOmittedOrEmpty ==
    backendCall.op = "extract" =>
        /\ backendCall.a1 = StrV(DefaultInstruction)
              <=> (~SuppliedInstruction(backendCall) \/ backendCall.p1.str = "")
        /\ (SuppliedInstruction(backendCall) /\ backendCall.p1.str # "")
              => backendCall.a1 = backendCall.p1
        /\ SchemaAndOptionsKeptApart(backendCall)

\* extract was delegated for an instruction with an options object in the
\* second position and no schema
C7_Witness ==
    /\ backendCall.op = "extract"
    /\ backendCall.p1.type = "string"
    /\ backendCall.p1.str # ""
    /\ backendCall.p2.type = "object"
    /\ backendCall.a2 = SchemaV(pageTextSchema)

\* C9: when the model name or the API key is absent from the environment,
\* getStageHand() fails without constructing or caching an AI client.
C9_NoClientWithoutCredentials ==
    (~hasModelName \/ ~hasApiKey) =>
        /\ clients = << >>
        /\ \A t \in Targets : stagehand[t] = None
----------------------------------------------------------------------------
(* The workflow `main` of src/src/index.ts, one action per statement group  *)
(* between two awaits that matter, the process "exit" listener last.        *)

\* for (let i = 0; i < 10; i++)
LoopBound == 10

sp == << " " >>
wRemove  == << "r", "e", "m", "o", "v", "e" >>
wRemoveC == << "R", "e", "m", "o", "v", "e" >>
wSearch  == << "s", "e", "a", "r", "c", "h" >>
wSearchC == << "S", "e", "a", "r", "c", "h" >>
wInput   == << "i", "n", "p", "u", "t" >>
wTextbox == << "t", "e", "x", "t", "b", "o", "x" >>
wProduct == << "p", "r", "o", "d", "u", "c", "t" >>
wCart    == << "c", "a", "r", "t" >>
wCartC   == << "C", "a", "r", "t" >>
wOne     == << "1" >>
wLogin   == << "l", "o", "g", "i", "n" >>

\* what the backend may answer to "find the 'remove' button ...": the same
\* description may come with one selector or another
RemoveCandidates ==
    { [description |-> wRemoveC \o sp \o wCart, selector |-> "#a"],
      [description |-> wRemoveC \o sp \o wCart, selector |-> "#b"],
      [description |-> wCartC, selector |-> "#cart"] }

\* what the backend may answer to "find the search bar"
SearchCandidates ==
    { [description |-> wSearchC \o sp \o wInput, selector |-> "#search"],
      [description |-> wSearch \o sp \o wProduct, selector |-> "a.search"],
      [description |-> wLogin, selector |-> "#login"] }

\* what the backend may answer to "Find the cart button/banner ..."
CartCandidates ==
    { [description |-> wCartC, selector |-> "#cart"],
      [description |-> wCart \o sp \o wOne, selector |-> "#cart-banner"],
      [description |-> wLogin, selector |-> "#login"] }

RemoveObservations == SeqsUpTo(RemoveCandidates, MaxObserved)
SearchObservations == SeqsUpTo(SearchCandidates, MaxObserved)
CartObservations   == SeqsUpTo(CartCandidates, MaxObserved)

\* what an extraction may return: up to MaxItems items, each with its own
\* (non-empty) name
ExtractedLists ==
    { [k \in 1..n |-> [name |-> "item " \o ToString(k)]] : n \in 0..MaxItems }

\* Array.prototype.find: the first element the test accepts, or undefined
find(actions, test(_)) ==
    LET hits == { k \in 1..Len(actions) : test(actions[k]) }
    IN  IF hits = {} THEN NoAction
        ELSE actions[CHOOSE k \in hits : \A j \in hits : k <= j]

\* lines 130-132
isRemoveAction(action) == includes(toLowerCase(action.description), wRemove)

\* lines 152-162: the keywords are compared as written
SearchKeywords == << << wSearch, wTextbox >>, << wSearch, wInput >>, << wSearch, wProduct >> >>

isSearchInputAction(action) ==
    \E c \in 1..Len(SearchKeywords) : \A j \in 1..Len(SearchKeywords[c]) :
        includes(toLowerCase(action.description), SearchKeywords[c][j])

\* lines 229-236
isCartWithCount(action) ==
    /\ includes(toLowerCase(action.description), wCart)
    /\ includes(toLowerCase(action.description), wOne)

isCartAction(action) == includes(toLowerCase(action.description), wCart)

\* the choice without the preference: the first candidate that names the cart
cartActionOf_FirstCart(actions) == find(actions, isCartAction)

cartActionOf(actions) ==
    IF find(actions, isCartWithCount) # NoAction
    THEN find(actions, isCartWithCount)
    ELSE find(actions, isCartAction)

MainFrame == UNCHANGED << envVars, resolverVars, callerVars, backendCall >>

\* main's promise is rejected in the world w: nothing after the failing
\* statement runs
Abort(err, w) ==
    /\ pc' = "aborted"
    /\ abortedBy' = err
    /\ launchAtAbort' = w.launchAttempts
    /\ clientsAtAbort' = Len(w.clients)

NoAbort == UNCHANGED << abortedBy, launchAtAbort, clientsAtAbort >>

\* line 112: const stagehand = await ZeptoAutomation.getStageHand()
MainGetStageHand ==
    /\ MainFrame
    /\ pc = "getStageHand"
    /\ \E o \in getStageHand(World, "Zepto") :
        /\ Install(o.w)
        /\ IF o.err # "" THEN Abort(o.err, o.w) /\ steps' = steps
           ELSE pc' = "getPage" /\ NoAbort /\ steps' = steps
    /\ UNCHANGED << loopI, loopObserves, removeClicks, curActions, lastClick,
                    items, randomIndex, addClicks, cartClicks, exitRan, loopVisible >>

\* lines 113-122: the page, then the click that opens the cart
MainGetPage ==
    /\ MainFrame
    /\ pc = "getPage"
    /\ \E o \in getPage(World, "Zepto") :
        /\ Install(o.w)
        /\ IF o.err # "" THEN Abort(o.err, o.w) /\ steps' = steps
           ELSE pc' = "loop" /\ NoAbort /\ steps' = Append(steps, "SearchOpened")
    /\ UNCHANGED << loopI, loopObserves, removeClicks, curActions, lastClick,
                    items, randomIndex, addClicks, cartClicks, exitRan, loopVisible >>

\* one pass of the loop with the bound of the `for` raised by one
LoopIteration_OneMore ==
    /\ MainFrame
    /\ pc = "loop"
    /\ loopI < LoopBound + 1
    /\ \E actions \in RemoveObservations : \E visible \in BOOLEAN :
        LET removeAction == find(actions, isRemoveAction) IN
        /\ curActions' = actions
        /\ loopObserves' = loopObserves + 1
        /\ loopVisible' = IF removeAction = NoAction THEN "unasked"
                          ELSE IF visible THEN "visible" ELSE "hidden"
        /\ IF removeAction # NoAction /\ visible
           THEN /\ removeClicks' = removeClicks + 1
                /\ lastClick' = removeAction
                /\ loopI' = loopI + 1
                /\ pc' = "loop"
                /\ steps' = steps
           ELSE /\ pc' = "search"
                /\ steps' = Append(steps, "CartCleared")
                /\ UNCHANGED << removeClicks, lastClick, loopI >>
    /\ NoAbort
    /\ UNCHANGED << worldVars, items, randomIndex, addClicks, cartClicks, exitRan >>

\* one pass of the loop that keeps the remove target of an earlier pass
\* instead of taking the one just observed
LoopIteration_CachedTarget ==
    /\ MainFrame
    /\ pc = "loop"
    /\ loopI < LoopBound
    /\ \E actions \in RemoveObservations : \E visible \in BOOLEAN :
        LET removeAction == IF lastClick # NoAction THEN lastClick
                            ELSE find(actions, isRemoveAction) IN
        /\ curActions' = actions
        /\ loopObserves' = loopObserves + 1
        /\ loopVisible' = IF removeAction = NoAction THEN "unasked"
                          ELSE IF visible THEN "visible" ELSE "hidden"
        /\ IF removeAction # NoAction /\ visible
           THEN /\ removeClicks' = removeClicks + 1
                /\ lastClick' = removeAction
                /\ loopI' = loopI + 1
                /\ pc' = "loop"
                /\ steps' = steps
           ELSE /\ pc' = "search"
                /\ steps' = Append(steps, "CartCleared")
                /\ UNCHANGED << removeClicks, lastClick, loopI >>
    /\ NoAbort
    /\ UNCHANGED << worldVars, items, randomIndex, addClicks, cartClicks, exitRan >>

\* lines 126-148, one pass of the loop body: observe, find the remove
\* candidate, click it when visible, else break
LoopIteration ==
    /\ MainFrame
    /\ pc = "loop"
    /\ loopI < LoopBound
    /\ \E actions \in RemoveObservations : \E visible \in BOOLEAN :
        LET removeAction == find(actions, isRemoveAction) IN
        /\ curActions' = actions
        /\ loopObserves' = loopObserves + 1
        /\ loopVisible' = IF removeAction = NoAction THEN "unasked"
                          ELSE IF visible THEN "visible" ELSE "hidden"
        /\ IF removeAction # NoAction /\ visible
           THEN /\ removeClicks' = removeClicks + 1
                /\ lastClick' = removeAction
                /\ loopI' = loopI + 1
                /\ pc' = "loop"
                /\ steps' = steps
           ELSE /\ pc' = "search"
                /\ steps' = Append(steps, "CartCleared")
                /\ UNCHANGED << removeClicks, lastClick, loopI >>
    /\ NoAbort
    /\ UNCHANGED << worldVars, items, randomIndex, addClicks, cartClicks, exitRan >>

\* line 126: the loop ends when i reaches the bound
LoopExit ==
    /\ MainFrame
    /\ pc = "loop"
    /\ loopI >= LoopBound
    /\ pc' = "search"
    /\ steps' = Append(steps, "CartCleared")
    /\ NoAbort
    /\ UNCHANGED << worldVars, loopI, loopObserves, removeClicks, curActions,
                    lastClick, items, randomIndex, addClicks, cartClicks, exitRan, loopVisible >>

\* the search step going on without a candidate instead of throwing
MainSearch_SoftFailure ==
    /\ MainFrame
    /\ pc = "search"
    /\ \E actions \in SearchObservations :
        LET searchInputAction == find(actions, isSearchInputAction) IN
        /\ curActions' = actions
        /\ pc' = "type"
        /\ lastClick' = searchInputAction
        /\ steps' = steps
        /\ NoAbort
    /\ UNCHANGED << worldVars, loopI, loopObserves, removeClicks, items,
                    randomIndex, addClicks, cartClicks, exitRan, loopVisible >>

\* lines 150-166: observe the search bar, pick the candidate, click it;
\* `searchInputAction!.selector` throws a TypeError when nothing was picked
MainSearch ==
    /\ MainFrame
    /\ pc = "search"
    /\ \E actions \in SearchObservations :
        LET searchInputAction == find(actions, isSearchInputAction) IN
        /\ curActions' = actions
        /\ IF searchInputAction = NoAction
           THEN Abort("TypeError: searchInputAction is undefined", World)
                /\ UNCHANGED << lastClick, steps >>
           ELSE /\ pc' = "type"
                /\ lastClick' = searchInputAction
                /\ steps' = steps
                /\ NoAbort
    /\ UNCHANGED << worldVars, loopI, loopObserves, removeClicks, items,
                    randomIndex, addClicks, cartClicks, exitRan, loopVisible >>

\* lines 170-180: wait for the input (5 s), type the query, press Enter
MainType ==
    /\ MainFrame
    /\ pc = "type"
    /\ \E visible \in BOOLEAN :
        IF visible
        THEN pc' = "extract" /\ steps' = Append(steps, "QueryTyped") /\ NoAbort
        ELSE Abort("TimeoutError: input not visible", World) /\ steps' = steps
    \* `actions` and `searchInputAction` are not read again
    /\ curActions' = << >>
    /\ lastClick' = NoAction
    /\ UNCHANGED << worldVars, loopI, loopObserves, removeClicks,
                    items, randomIndex, addClicks, cartClicks, exitRan, loopVisible >>

\* the extraction started without waiting for the query to be submitted
MainExtract_Early ==
    /\ MainFrame
    /\ pc \in { "type", "extract" }
    /\ \/ /\ \E extracted \in ExtractedLists : items' = extracted
          /\ pc' = "select"
          /\ steps' = Append(steps, "ResultsExtracted")
          /\ NoAbort
       \/ /\ Abort("extraction failed the schema", World)
          /\ UNCHANGED << items, steps >>
    /\ UNCHANGED << worldVars, loopI, loopObserves, removeClicks, curActions,
                    lastClick, randomIndex, addClicks, cartClicks, exitRan, loopVisible >>

\* lines 182-197: stagehand.extract with the items schema; an item with an
\* empty name fails the schema and the call throws
MainExtract ==
    /\ MainFrame
    /\ pc = "extract"
    /\ \/ /\ \E extracted \in ExtractedLists : items' = extracted
          /\ pc' = "select"
          /\ steps' = Append(steps, "ResultsExtracted")
          /\ NoAbort
       \/ /\ Abort("extraction failed the schema", World)
          /\ UNCHANGED << items, steps >>
    /\ UNCHANGED << worldVars, loopI, loopObserves, removeClicks, curActions,
                    lastClick, randomIndex, addClicks, cartClicks, exitRan, loopVisible >>

\* the add click issued whether or not the index names an extracted item
MainSelectAndAdd_Unchecked ==
    /\ MainFrame
    /\ pc = "select"
    /\ \E idx \in 0..Len(items) :
        /\ randomIndex' = idx
        /\ addClicks' = addClicks + 1
        /\ pc' = "verify"
        /\ steps' = steps \o << "ItemSelected", "AddedToCart" >>
        /\ NoAbort
    /\ UNCHANGED << worldVars, loopI, loopObserves, removeClicks, curActions,
                    lastClick, items, cartClicks, exitRan, loopVisible >>

\* lines 199-217: Math.floor(Math.random() * length) is an index below the
\* length, and 0 for an empty list, where extractActions[0] is undefined and
\* `itemSelectAction.name` throws a TypeError; else the add button is clicked
MainSelectAndAdd ==
    /\ MainFrame
    /\ pc = "select"
    /\ \E idx \in (IF items = << >> THEN {0} ELSE 0..(Len(items) - 1)) :
        /\ randomIndex' = idx
        /\ IF idx + 1 \in DOMAIN items
           THEN /\ addClicks' = addClicks + 1
                /\ pc' = "verify"
                /\ steps' = steps \o << "ItemSelected", "AddedToCart" >>
                /\ NoAbort
           ELSE /\ Abort("TypeError: itemSelectAction is undefined", World)
                /\ UNCHANGED << addClicks, steps >>
    /\ UNCHANGED << worldVars, loopI, loopObserves, removeClicks, curActions,
                    lastClick, items, cartClicks, exitRan, loopVisible >>

\* the verification with a missing cart indicator escalated to a failure
MainVerify_HardFailure ==
    /\ MainFrame
    /\ pc = "verify"
    /\ \E actions \in CartObservations :
        LET cartAction == cartActionOf(actions) IN
        /\ curActions' = actions
        /\ IF cartAction # NoAction
           THEN /\ cartClicks' = cartClicks + 1 /\ lastClick' = cartAction
                /\ pc' = "teardown"
                /\ steps' = Append(steps, "Verified")
                /\ NoAbort
           ELSE /\ UNCHANGED << cartClicks, lastClick, steps >>
                /\ Abort("Cart button not found!", World)
    /\ UNCHANGED << worldVars, loopI, loopObserves, removeClicks, items,
                    randomIndex, addClicks, exitRan, loopVisible >>

\* lines 220-247: observe the cart indicator and click the candidate chosen
MainVerify ==
    /\ MainFrame
    /\ pc = "verify"
    /\ \E actions \in CartObservations :
        LET cartAction == cartActionOf(actions) IN
        /\ curActions' = actions
        /\ IF cartAction # NoAction
           THEN cartClicks' = cartClicks + 1 /\ lastClick' = cartAction
           ELSE UNCHANGED << cartClicks, lastClick >>
    /\ pc' = "teardown"
    /\ steps' = Append(steps, "Verified")
    /\ NoAbort
    /\ UNCHANGED << worldVars, loopI, loopObserves, removeClicks, items,
                    randomIndex, addClicks, exitRan, loopVisible >>

\* line 249: await stagehand.close()
MainTeardown ==
    /\ MainFrame
    /\ pc = "teardown"
    /\ Install([World EXCEPT !.clients[stagehand["Zepto"]].closed = TRUE])
    /\ pc' = "closeContext"
    /\ NoAbort
    /\ UNCHANGED << steps, loopI, loopObserves, removeClicks, curActions, lastClick,
                    items, randomIndex, addClicks, cartClicks, exitRan, loopVisible >>

\* line 250: await closeContext()
MainCloseContext ==
    /\ MainFrame
    /\ pc = "closeContext"
    /\ \E o \in closeContext(World) :
        /\ Install(o.w)
        /\ IF o.err # "" THEN Abort(o.err, o.w) /\ steps' = steps
           ELSE pc' = "done" /\ NoAbort /\ steps' = Append(steps, "Closed")
    /\ UNCHANGED << loopI, loopObserves, removeClicks, curActions, lastClick,
                    items, randomIndex, addClicks, cartClicks, exitRan, loopVisible >>

\* what an "exit" listener gets done: the synchronous part of closeContext(),
\* that is getContext() up to its first await.  A cached context is returned
\* (and context.close(), behind the await, never runs); else findChrome() runs
\* again and, with an executable, launchPersistentContext is called again
exitListener(w) ==
    IF w.context # None THEN w
    ELSE IF ~chromeFound THEN w
    ELSE [w EXCEPT !.launchAttempts = @ + 1]

\* lines 258-260: the process ends, after main returned or was rejected
ProcessExit ==
    /\ MainFrame
    /\ pc \in { "done", "aborted" }
    /\ ~exitRan
    /\ exitRan' = TRUE
    /\ Install(exitListener(World))
    /\ UNCHANGED << pc, steps, abortedBy, launchAtAbort, clientsAtAbort, loopI,
                    loopObserves, removeClicks, curActions, lastClick, items,
                    randomIndex, addClicks, cartClicks, loopVisible >>

InitMain ==
    /\ layout = "static"
    /\ EnvAny
    /\ WorldInit /\ CallerInit /\ ResolverOff
    /\ budget = 0
    /\ MainIdle("getStageHand")

NextMain ==
    \/ MainGetStageHand
    \/ MainGetPage
    \/ LoopIteration
    \/ LoopExit
    \/ MainSearch
    \/ MainType
    \/ MainExtract
    \/ MainSelectAndAdd
    \/ MainVerify
    \/ MainTeardown
    \/ MainCloseContext
    \/ ProcessExit

SpecMain == InitMain /\ [][NextMain]_vars

\* the event loop runs every continuation that is ready
FairSpecMain == SpecMain /\ WF_vars(NextMain)
----------------------------------------------------------------------------
(* Properties of the workflow.                                              *)

\* C4: the empty-cart loop ends after at most 10 passes (at most 10 observe
\* calls and at most 10 remove clicks), whatever the backend returns and
\* however many removable items there are, and main goes on with the
\* resolution of the search input.
C4_LoopBoundedThenSearch ==
    /\ [](loopI <= 10 /\ loopObserves <= 10 /\ removeClicks <= 10)
    /\ [][(pc = "loop" /\ pc' # "loop") => pc' = "search"]_vars
    /\ (pc = "loop") ~> (pc = "search")

\* the loop clicked a remove button in each of its 10 passes and main is at
\* the search step
C4_Witness ==
    /\ pc = "search"
    /\ loopI = 10
    /\ loopObserves = 10
    /\ removeClicks = 10

LifecycleFailures ==
    { "Chrome executable not found", "launch failed",
      "debugging endpoint unreachable", "init failed" }

\* C10: after a lifecycle failure the run is aborted and, for the rest of the
\* process, the exit listener included, no further launch of the browsing
\* context is attempted and no AI client is built.
C10_NoAttemptAfterLifecycleFailure ==
    abortedBy \in LifecycleFailures =>
        /\ pc = "aborted"
        /\ launchAttempts = launchAtAbort
        /\ Len(clients) = clientsAtAbort

\* the client of the workflow and the context it runs in
MainClientClosed == stagehand["Zepto"] # None /\ clients[stagehand["Zepto"]].closed
MainContextClosed == context # None /\ contexts[context].closed

\* C11: when the cart observation of the verification holds no candidate
\* whose description contains "cart", main clicks nothing, is not aborted and
\* goes on to the teardown, where the AI client is closed first and the
\* browsing context after it; the add click was issued before that step.
C11_SoftVerifyFailure ==
    /\ [][(pc = "verify" /\ cartActionOf(curActions') = NoAction) =>
            /\ addClicks = 1
            /\ cartClicks' = cartClicks
            /\ abortedBy' = ""
            /\ pc' = "teardown"]_vars
    /\ [][(~MainContextClosed /\ MainContextClosed') => MainClientClosed]_vars
    /\ (pc = "teardown") ~> (pc = "done" /\ MainClientClosed /\ MainContextClosed)

\* a run whose verification saw candidates, none of them a cart indicator,
\* and that ended with the client and the context closed
C11_Witness ==
    /\ pc = "done"
    /\ curActions # << >>
    /\ cartActionOf(curActions) = NoAction
    /\ cartClicks = 0
    /\ addClicks = 1
    /\ abortedBy = ""
    /\ MainClientClosed /\ MainContextClosed

\* no candidate of the list matches a combination of the search keywords
NoSearchMatch(actions) ==
    \A k \in 1..Len(actions) : ~isSearchInputAction(actions[k])

LaterSteps == { "QueryTyped", "ResultsExtracted", "ItemSelected", "AddedToCart",
                "Verified", "Closed" }

\* C12: when no observed candidate matches a combination of the search
\* keywords, main is aborted at the search step, and neither the click on the
\* search control nor the typing, the extraction, the selection, the add
\* click or the verification is ever executed.
C12_SearchHardFailure ==
    /\ [][(pc = "search" /\ NoSearchMatch(curActions')) =>
            /\ pc' = "aborted"
            /\ abortedBy' = "TypeError: searchInputAction is undefined"
            /\ lastClick' = lastClick]_vars
    /\ [](abortedBy = "TypeError: searchInputAction is undefined" =>
            /\ pc = "aborted"
            /\ lastClick \notin SearchCandidates
            /\ \A k \in 1..Len(steps) : steps[k] \notin LaterSteps
            /\ items = << >>
            /\ addClicks = 0
            /\ cartClicks = 0)

\* the observation returned candidates, none of them the search input; main
\* was aborted and the process has ended
C12_Witness ==
    /\ pc = "aborted"
    /\ abortedBy = "TypeError: searchInputAction is undefined"
    /\ curActions # << >>
    /\ NoSearchMatch(curActions)
    /\ exitRan

----------------------------------------------------------------------------
(* Properties of the targets taken together.                                *)

\* the successful navigations of page p
NavigatedTo(p) == { gotos[k].url : k \in { j \in 1..Len(gotos) : gotos[j].page = p /\ gotos[j].ok } }

\* C13: two different targets, the base Automation type included, never share
\* a page or an AI client: whatever getPage()/getStageHand() calls were made,
\* the pages (clients) handed to one target are handed to no other target, and
\* every page handed to a target was navigated to that target's home URL.
C13_TargetsShareNothing ==
    /\ \A t, u \in Targets : t # u =>
        /\ pageRet[t] \cap pageRet[u] = {}
        /\ shRet[t] \cap shRet[u] = {}
    /\ \A t \in Targets : \A p \in pageRet[t] : HOME_URL(t) \in NavigatedTo(p)

\* the steps of the workflow in the order of the state machine
StepOrder ==
    << "SearchOpened", "CartCleared", "QueryTyped", "ResultsExtracted",
       "ItemSelected", "AddedToCart", "Verified", "Closed" >>

Rank(step) == CHOOSE r \in 1..Len(StepOrder) : StepOrder[r] = step

\* every step but the clearing of the cart is required by the steps after it
OptionalSteps == { "CartCleared" }

\* C14: the steps of a run are completed strictly in the order search surface
\* opened, cart cleared (optional), query typed and submitted, results
\* extracted, item selected, add click, verification, close: a step is
\* completed only after every required earlier step, none twice; the add
\* click never precedes the end of the extraction, nor the extraction the
\* submission of the query.
C14_StepsInOrder ==
    /\ \A k \in 1..Len(steps) :
        /\ \A j \in 1..(k - 1) : Rank(steps[j]) < Rank(steps[k])
        /\ \A r \in 1..(Rank(steps[k]) - 1) :
            StepOrder[r] \notin OptionalSteps =>
                \E j \in 1..(k - 1) : steps[j] = StepOrder[r]
    /\ addClicks > 0 =>
        \E k \in 1..Len(steps) : steps[k] = "ResultsExtracted"
    /\ (items # << >> \/ pc = "select") =>
        \E k \in 1..Len(steps) : steps[k] = "QueryTyped"

\* a run that went through every step
C14_Witness ==
    /\ pc = "done"
    /\ steps = StepOrder
    /\ addClicks = 1

\* C15: a run that has created the browsing context eventually reaches a
\* teardown in which that context is closed, when it ends in Verified as well
\* as when a step aborts it.
C15_ContextEventuallyClosed ==
    (context # None) ~> MainContextClosed

\* main is past the add-to-cart step
PastAdd == pc \in { "verify", "teardown", "closeContext", "done" }

\* C16: a run that reaches the add-to-cart step issues exactly one add click,
\* for the item at the selected index, which lies in [0, length) of the
\* extracted sequence; after an empty extraction there is no such item and no
\* add click is issued.
C16_OneAddClickInRange ==
    /\ addClicks <= 1
    /\ PastAdd => addClicks = 1
    /\ addClicks = 1 =>
        /\ 0 <= randomIndex /\ randomIndex < Len(items)
        /\ items[randomIndex + 1].name # ""
    /\ items = << >> => addClicks = 0 /\ ~PastAdd

\* the add click was issued for the last of several extracted items
C16_Witness ==
    /\ PastAdd
    /\ addClicks = 1
    /\ Len(items) > 1
    /\ randomIndex = Len(items) - 1

\* the extraction returned an empty sequence and main ended without a click
C16_WitnessEmpty ==
    /\ abortedBy = "TypeError: itemSelectAction is undefined"
    /\ items = << >>
    /\ addClicks = 0

\* the verification has made its choice among the candidates in curActions
Verified == pc \in { "teardown", "closeContext", "done" }

\* positions of the candidates naming the cart with the count, and the cart
CountPositions ==
    { k \in 1..Len(curActions) :
        /\ includes(toLowerCase(curActions[k].description), wCart)
        /\ includes(toLowerCase(curActions[k].description), wOne) }

CartPositions ==
    { k \in 1..Len(curActions) :
        includes(toLowerCase(curActions[k].description), wCart) }

First(S) == CHOOSE k \in S : \A j \in S : k <= j

\* C17: the verification clicks the first candidate whose lower-cased
\* description contains both "cart" and "1" when there is one, also when a
\* candidate with "cart" alone stands earlier in the list; else the first
\* candidate containing "cart"; and never a candidate without "cart".
C17_CartTieBreak ==
    Verified =>
        /\ CountPositions # {} =>
            cartClicks = 1 /\ lastClick = curActions[First(CountPositions)]
        /\ (CountPositions = {} /\ CartPositions # {}) =>
            cartClicks = 1 /\ lastClick = curActions[First(CartPositions)]
        /\ CartPositions = {} => cartClicks = 0
        /\ cartClicks <= 1
        /\ cartClicks = 1 => includes(toLowerCase(lastClick.description), wCart)

\* a candidate with "cart" alone came first, the one with the count second,
\* and the second was clicked
C17_Witness ==
    /\ Verified
    /\ Len(curActions) = 2
    /\ CartPositions = {1, 2}
    /\ CountPositions = {2}
    /\ cartClicks = 1
    /\ lastClick = curActions[2]

\* positions of the remove candidates in a list of observed candidates
RemovePositions(actions) ==
    { k \in 1..Len(actions) :
        includes(toLowerCase(actions[k].description), wRemove) }

\* C18: in the empty-cart loop a remove click goes to the candidate returned
\* by the observe call of the same pass, never to one kept from an earlier
\* pass, and only after its element was found visible; a pass that finds no
\* remove candidate, or one that is not visible, ends the loop, and no
\* observe or click of the loop follows.
C18_LoopReobserves ==
    /\ [][removeClicks' # removeClicks =>
            /\ pc = "loop"
            /\ removeClicks' = removeClicks + 1
            /\ loopObserves' = loopObserves + 1
            /\ RemovePositions(curActions') # {}
            /\ lastClick' = curActions'[First(RemovePositions(curActions'))]
            /\ loopVisible' = "visible"]_vars
    /\ [][(loopObserves' # loopObserves
            /\ (RemovePositions(curActions') = {} \/ loopVisible' # "visible")) =>
            /\ removeClicks' = removeClicks
            /\ pc' = "search"]_vars
    /\ [][pc # "loop" =>
            loopObserves' = loopObserves /\ removeClicks' = removeClicks]_vars

\* a second pass clicked the candidate it observed, another one than the
\* first pass had clicked, and a third pass found its candidate hidden
C18_Witness ==
    /\ pc = "search"
    /\ removeClicks = 2
    /\ loopObserves = 3
    /\ loopVisible = "hidden"
    /\ lastClick.selector = "#b"
    /\ Len(curActions) > 0
    /\ curActions[1].selector = "#a"

----------------------------------------------------------------------------
(* Callers that do not wait for one another: each caller makes its calls on *)
(* the same target, and a call runs from one await to the next in one step, *)
(* the steps of different callers interleaved as the event loop may run     *)
(* them.                                                                    *)

RaceTarget == "Blinkit"

RaceOps == { "getContext", "getPage", "getStageHand" }

Step(w, tk) == [w |-> w, tk |-> tk]

\* the call throws
Failed(w, tk, err) ==
    Step(w, [IdleTask EXCEPT !.op = tk.op, !.n = tk.n, !.pc = "failed", !.err = err])

\* the call returns ret; for a client, whether its init() had completed then
Returned(w, tk, ret) ==
    Step(w, [IdleTask EXCEPT !.op = tk.op, !.n = tk.n, !.pc = "done", !.ret = ret,
                             !.retInited = IF tk.op = "getStageHand"
                                           THEN w.clients[ret].inited ELSE FALSE])

\* getStageHand after `await this.getPage()`: the fetch of getCdpUrl starts
AfterPage(w, tk, pg) ==
    IF tk.op = "getPage" THEN Returned(w, tk, pg)
    ELSE Step(w, [tk EXCEPT !.pg = pg, !.pc = "sh_cdp"])

\* getPage after `await BrowserContextManager.getContext()`: newPage starts
AfterContext(w, tk, ctx) ==
    IF tk.op = "getContext" THEN Returned(w, tk, ctx)
    ELSE Step(w, [tk EXCEPT !.ctx = ctx, !.pc = "pg_newPage"])

\* getContext up to its await: the cached context, or the launch is started
EnterContext(w, tk) ==
    IF w.context # None THEN AfterContext(w, tk, w.context)
    ELSE IF ~chromeFound THEN Failed(w, tk, "Chrome executable not found")
    ELSE Step(w, [tk EXCEPT !.pc = "ctx_launch"])

\* getPage up to its first await
EnterPage(w, tk) ==
    IF readSlot(w.page, RaceTarget) # None
    THEN AfterPage(w, tk, readSlot(w.page, RaceTarget))
    ELSE EnterContext(w, tk)

\* getStageHand up to its first await
EnterStageHand(w, tk) ==
    IF readSlot(w.stagehand, RaceTarget) # None
    THEN Returned(w, tk, readSlot(w.stagehand, RaceTarget))
    ELSE EnterPage(w, tk)

Enter(w, tk) ==
    CASE tk.op = "getContext"   -> EnterContext(w, tk)
      [] tk.op = "getPage"      -> EnterPage(w, tk)
      [] tk.op = "getStageHand" -> EnterStageHand(w, tk)

RaceFrame ==
    UNCHANGED << envVars, resolverVars, mainVars, backendCall, budget, calls,
                 used, lastErr, pageRet, shRet, ctxRet >>

Resume(k, r) ==
    /\ Install(r.w)
    /\ tasks' = [tasks EXCEPT ![k] = r.tk]

\* a caller makes a call, its first or one after its last call has ended: the
\* synchronous part, up to the first await
RaceEnter(k) ==
    /\ RaceFrame
    /\ tasks[k].pc \in { "idle", "done", "failed" }
    /\ tasks[k].n < MaxTaskCalls
    /\ \E op \in RaceOps :
        Resume(k, Enter(World, [IdleTask EXCEPT !.op = op, !.n = tasks[k].n + 1]))

\* `this.context = await chromium.launchPersistentContext(...)` resumes
RaceLaunched(k) ==
    /\ RaceFrame
    /\ tasks[k].pc = "ctx_launch"
    /\ \E o \in launchPersistentContext(World) :
        Resume(k, IF o.err # "" THEN Failed(o.w, tasks[k], o.err)
                  ELSE AfterContext([o.w EXCEPT !.context = o.ret], tasks[k], o.ret))

\* `const page = await context.newPage()` resumes, page.goto starts
RacePageOpened(k) ==
    /\ RaceFrame
    /\ tasks[k].pc = "pg_newPage"
    /\ \E o \in newPage(World, tasks[k].ctx, RaceTarget) :
        Resume(k, IF o.err # "" THEN Failed(o.w, tasks[k], o.err)
                  ELSE Step(o.w, [tasks[k] EXCEPT !.pg = o.ret, !.pc = "pg_goto"]))

\* `await page.goto(this.HOME_URL)` resumes: this.page = page
RaceNavigated(k) ==
    /\ RaceFrame
    /\ tasks[k].pc = "pg_goto"
    /\ \E g \in goto(World, tasks[k].pg, HOME_URL(RaceTarget)) :
        Resume(k, IF g.err # "" THEN Failed(g.w, tasks[k], g.err)
                  ELSE AfterPage([g.w EXCEPT !.page[RaceTarget] = tasks[k].pg],
                                 tasks[k], tasks[k].pg))

\* the client built and returned without a call of init()
RaceClientBuilt_NoInit(k) ==
    /\ RaceFrame
    /\ tasks[k].pc = "sh_cdp"
    /\ \E u \in getCdpUrl(World) :
        IF u.err # "" THEN Resume(k, Failed(u.w, tasks[k], u.err))
        ELSE \E c \in newStagehand(u.w, RaceTarget, u.ret) :
            Resume(k, IF c.err # "" THEN Failed(c.w, tasks[k], c.err)
                      ELSE Returned([c.w EXCEPT !.stagehand[RaceTarget] = c.ret],
                                    tasks[k], c.ret))

\* `await getCdpUrl()` resumes: this.stagehand = new Stagehand(...), and
\* init() starts
RaceClientBuilt(k) ==
    /\ RaceFrame
    /\ tasks[k].pc = "sh_cdp"
    /\ \E u \in getCdpUrl(World) :
        IF u.err # "" THEN Resume(k, Failed(u.w, tasks[k], u.err))
        ELSE \E c \in newStagehand(u.w, RaceTarget, u.ret) :
            Resume(k, IF c.err # "" THEN Failed(c.w, tasks[k], c.err)
                      ELSE Step([c.w EXCEPT !.stagehand[RaceTarget] = c.ret],
                                [tasks[k] EXCEPT !.client = c.ret, !.pc = "sh_init"]))

\* `await this.stagehand.init()` resumes: return this.stagehand
RaceInitDone(k) ==
    /\ RaceFrame
    /\ tasks[k].pc = "sh_init"
    /\ \E i \in init(World, tasks[k].client) :
        Resume(k, IF i.err # "" THEN Failed(i.w, tasks[k], i.err)
                  ELSE Returned(i.w, tasks[k], readSlot(i.w.stagehand, RaceTarget)))

\* a machine with Chrome and both credentials: what is left to chance is
\* the order of the steps and the failures of the driver and the backend
InitRace ==
    /\ layout = "instance"
    /\ chromeFound = TRUE /\ hasModelName = TRUE /\ hasApiKey = TRUE
    /\ WorldInit /\ CallerInit /\ ResolverOff /\ MainOff
    /\ budget = 0

NextRace ==
    \/ \E k \in Tasks : RaceEnter(k)
    \/ \E k \in Tasks : RaceLaunched(k)
    \/ \E k \in Tasks : RacePageOpened(k)
    \/ \E k \in Tasks : RaceNavigated(k)
    \/ \E k \in Tasks : RaceClientBuilt(k)
    \/ \E k \in Tasks : RaceInitDone(k)

SpecRace == InitRace /\ [][NextRace]_vars

\* caller k returns from getStageHand in this step
ReturnsClient(k) ==
    /\ tasks'[k] # tasks[k]
    /\ tasks'[k].pc = "done"
    /\ tasks'[k].op = "getStageHand"

\* another caller is awaiting the init() of client c
InitPending(k, c) ==
    \E j \in Tasks \ {k} : tasks'[j].pc = "sh_init" /\ tasks'[j].client = c

\* C19: calls on one target that are not serialised can see a cache slot that
\* is only partly initialised: a getStageHand() entered while another call is
\* awaiting init() returns the client before its initialisation has completed
\* (a call returns an uninitialised client only while another call's init()
\* of that client is pending, or after it failed), and overlapping first
\* getPage()/getContext() calls each create a page/context of their own.
C19_PartialSlotOnlyFromPendingInit ==
    [][\A k \in Tasks :
        (ReturnsClient(k) /\ ~tasks'[k].retInited) =>
            \/ InitPending(k, tasks'[k].ret)
            \/ /\ clients'[tasks'[k].ret].initCalls > 0
               /\ ~clients'[tasks'[k].ret].inited]_vars

\* two overlapping first calls have launched a context and opened a page
\* each, and a getStageHand() entered during the other caller's init() has
\* returned the client, which is not initialised
C19_Witness ==
    /\ Len(contexts) = 2
    /\ Len(pages) = 2
    /\ pages[1].ctx # pages[2].ctx
    /\ \E k \in Tasks : \E j \in Tasks \ {k} :
        /\ tasks[k].pc = "done"
        /\ tasks[k].op = "getStageHand"
        /\ tasks[k].n = 2
        /\ ~tasks[k].retInited
        /\ tasks[j].pc = "sh_init"
        /\ tasks[j].client = tasks[k].ret
        /\ ~clients[tasks[k].ret].inited
        /\ clients[tasks[k].ret].initCalls = 0

\* C20: getStageHand() never returns, and never leaves cached, a client whose
\* init() did not complete: after a failed initialisation the slot is empty,
\* and a later call builds a client anew.
C20_NoUninitialisedClient ==
    \A t \in Targets :
        /\ stagehand[t] # None => clients[stagehand[t]].inited
        /\ \A c \in shRet[t] : clients[c].inited

====
